---- MODULE Spec2Model ----
(***************************************************************************)
(* Model of notebooks/evaluate.py: the segment builder create_segments     *)
(* and the evaluation driver plot_physiological_signals.                   *)
(*                                                                         *)
(* Two specifications share the module:                                    *)
(*   SpecSeg - create_segments run on bounded inputs, one step per loop    *)
(*             iteration;                                                  *)
(*   Spec    - plot_physiological_signals, one step per statement, with    *)
(*             the external collaborators (files, model, tracking sink,    *)
(*             image writer) free to succeed or raise.                     *)
(***************************************************************************)
EXTENDS Integers, Sequences, FiniteSets, TLC

VARIABLES
    \* ---- create_segments ----
    time_indices,      \* argument: sequence of time indices
    values,            \* argument: sequence of values
    stress_periods,    \* argument: sequence of <<start, end>> pairs
    segments,          \* local: list of finished segments
    current_segment,   \* local: segment under construction
    pos,               \* number of zip pairs consumed by the for loop
    spc,               \* position in create_segments: "idle" | "loop" | "done"
    \* ---- plot_physiological_signals ----
    pc,                \* position in the driver
    xfile,             \* content of the pickle at x_test_path
    yfile,             \* content of the pickle at y_test_path
    session,           \* dvclive session: "none" | "open" | "closed"
    x_test,            \* loaded feature mapping, or NotLoaded
    y_test,            \* loaded label sequence, or NotLoaded
    data_dict,         \* reshaped tensors, or NotLoaded
    predict_calls,     \* arguments of every model.predict call, in order
    y_pred_probs,      \* scores returned by model.predict (tenths)
    y_pred,            \* binarised predictions
    eda_time_indices,  \* list(range(len(eda)))
    true_periods,      \* stress_periods of the driver (from y_test)
    predicted_stress_periods,
    logged,            \* entries the tracking sink has accepted, in order
    chart_writes,      \* number of fig.write_image calls
    image_written,     \* the chart image file exists
    fig,               \* the Plotly figure, or NoFig
    events,            \* external calls made by the driver, in order
    error              \* exception propagating out of the call, or NoError

segvars == <<time_indices, values, stress_periods, segments, current_segment, pos, spc>>

drvvars == <<pc, xfile, yfile, session, x_test, y_test, data_dict, predict_calls,
             y_pred_probs, y_pred, eda_time_indices, true_periods,
             predicted_stress_periods, logged, chart_writes, image_written,
             fig, events, error>>

vars == <<segvars, drvvars>>

\* ------------------------------------------------------------------------
\* Bounds
\* ------------------------------------------------------------------------
MaxLen == 3        \* longest time_indices / values sequence
MaxTime == 2       \* time indices and interval endpoints range over 0..MaxTime
MaxPeriods == 2    \* most intervals handed to create_segments
MaxWindows == 3    \* most windows per channel in the x_test fixture
MaxLabels == 4     \* longest y_test label sequence

SeqsUpTo(S, n) == UNION {[1..m -> S] : m \in 0..n}

Min(a, b) == IF a < b THEN a ELSE b

RECURSIVE Flatten(_)
Flatten(ss) == IF ss = <<>> THEN <<>> ELSE Head(ss) \o Flatten(Tail(ss))

\* ------------------------------------------------------------------------
\* create_segments
\* ------------------------------------------------------------------------
\* The values are only copied, never inspected: sample i carries a value that
\* identifies it, so a lost, repeated or reordered sample shows.
SampleValues == {[i \in 1..n |-> 10 * i] : n \in 0..MaxLen}

\* Half-open intervals, the empty ones (start = end) included.
Intervals == {p \in (0..MaxTime) \X (0..MaxTime) : p[1] <= p[2]}

\* line 16: any(start <= t < end for start, end in stress_periods)
BrokenInStress(t, periods) ==
    \E j \in DOMAIN periods : periods[j][1] <= t /\ t <= periods[j][2]

InStress(t, periods) ==
    \E j \in DOMAIN periods : periods[j][1] <= t /\ t < periods[j][2]

\* line 17
Color(t, periods) == IF InStress(t, periods) THEN "red" ELSE "blue"

\* line 14 / line 21
NewSegment(color) == [x |-> <<>>, y |-> <<>>, color |-> color]

\* zip(time_indices, values) stops at the shorter argument
ZipLen == Min(Len(time_indices), Len(values))

\* Interval lists are drawn in order of start; the membership test of line 16
\* does not depend on the order of the list.
PeriodLists ==
    {q \in SeqsUpTo(Intervals, MaxPeriods) :
        \A j, k \in DOMAIN q : j < k => q[j][1] <= q[k][1]}

SegIdle ==
    /\ segments = <<>>
    /\ current_segment = NewSegment("blue")
    /\ pos = 0
    /\ spc = "idle"

SegInit ==
    /\ time_indices \in SeqsUpTo(0..MaxTime, MaxLen)
    /\ values \in SampleValues
    /\ stress_periods \in PeriodLists
    /\ SegIdle

\* lines 13-14
SegEnter ==
    /\ spc = "idle"
    /\ segments' = <<>>
    /\ current_segment' = NewSegment("blue")
    /\ pos' = 0
    /\ spc' = "loop"
    /\ UNCHANGED <<time_indices, values, stress_periods>>

\* lines 19-21: close the running segment when the colour changes
BrokenSplit(color) == color # current_segment.color

Split(color) == color # current_segment.color /\ current_segment.x # <<>>

\* lines 15-25: one iteration of the for loop
SegStep ==
    /\ spc = "loop"
    /\ pos < ZipLen
    /\ LET t == time_indices[pos + 1]
           v == values[pos + 1]
           color == Color(t, stress_periods)
           base == IF Split(color) THEN NewSegment(color) ELSE current_segment
       IN /\ segments' = IF Split(color) THEN Append(segments, current_segment)
                                         ELSE segments
          /\ current_segment' = [x |-> Append(base.x, t),
                                 y |-> Append(base.y, v),
                                 color |-> color]
    /\ pos' = pos + 1
    /\ UNCHANGED <<spc, time_indices, values, stress_periods>>

\* lines 27-30: flush the last segment and return
Flush == current_segment.x # <<>>

SegReturn ==
    /\ spc = "loop"
    /\ pos = ZipLen
    /\ segments' = IF Flush THEN Append(segments, current_segment) ELSE segments
    /\ spc' = "done"
    /\ UNCHANGED <<current_segment, pos, time_indices, values, stress_periods>>

\* ------------------------------------------------------------------------
\* plot_physiological_signals
\* ------------------------------------------------------------------------
NotLoaded == "not_loaded"
NoFig == "no_fig"
NoError == [type |-> "none", key |-> "none"]

\* line 42
required_keys == <<"EDA", "TEMP", "BVP", "ACC">>

Keys == {required_keys[i] : i \in DOMAIN required_keys}

\* lines 52-55: per-window length of each channel
EdaWin == 32
BvpWin == 256

Win(key) == IF key \in {"EDA", "TEMP"} THEN EdaWin ELSE BvpWin

\* line 68
PeriodLen == 8

\* line 60: scores are held in tenths, so 0.5 is 5
Threshold == 5

Scores == {4, 5, 6}

\* Flat length of a channel of the fixture holding n windows, or n windows and
\* a half (which cannot be reshaped).
FlatLen(key, n, ragged) == n * Win(key) + (IF ragged THEN Win(key) \div 2 ELSE 0)

Mappings ==
    UNION {{[key \in K |-> FlatLen(key, n, r[key])] : r \in [K -> BOOLEAN]} :
           <<K, n>> \in (SUBSET Keys) \X (0..MaxWindows)}

XFiles == [chan : Mappings, fill : {"zeros", "data"}]

YFiles == SeqsUpTo({0, 1}, MaxLabels)

DrvIdle ==
    /\ pc = "start"
    /\ session = "none"
    /\ x_test = NotLoaded
    /\ y_test = NotLoaded
    /\ data_dict = NotLoaded
    /\ predict_calls = <<>>
    /\ y_pred_probs = <<>>
    /\ y_pred = <<>>
    /\ eda_time_indices = <<>>
    /\ true_periods = <<>>
    /\ predicted_stress_periods = <<>>
    /\ logged = <<>>
    /\ chart_writes = 0
    /\ image_written = FALSE
    /\ fig = NoFig
    /\ events = <<>>
    /\ error = NoError

DrvInit ==
    /\ xfile \in XFiles
    /\ yfile \in YFiles
    /\ DrvIdle

\* lines 34-126: the statement that follows each statement of the body
BrokenAfter(p) ==
    CASE p = "start" -> "load_x"
      [] p = "load_x" -> "load_y"
      [] p = "load_y" -> "validate"
      [] p = "validate" -> "reshape"
      [] p = "reshape" -> "predict"
      [] p = "predict" -> "binarize"
      [] p = "binarize" -> "log_plot"
      [] p = "log_plot" -> "indices"
      [] p = "indices" -> "figure"
      [] p = "figure" -> "log_image"
      [] p = "log_image" -> "write_image"
      [] p = "write_image" -> "return"
      [] p = "return" -> "exit"
      [] p = "exit" -> "done"

After(p) ==
    CASE p = "start" -> "load_x"
      [] p = "load_x" -> "load_y"
      [] p = "load_y" -> "validate"
      [] p = "validate" -> "reshape"
      [] p = "reshape" -> "predict"
      [] p = "predict" -> "binarize"
      [] p = "binarize" -> "log_plot"
      [] p = "log_plot" -> "indices"
      [] p = "indices" -> "figure"
      [] p = "figure" -> "write_image"
      [] p = "write_image" -> "log_image"
      [] p = "log_image" -> "return"
      [] p = "return" -> "exit"
      [] p = "exit" -> "done"

\* An exception raised inside the with block: control goes to Live.__exit__
Raise(type, key) ==
    /\ error' = [type |-> type, key |-> key]
    /\ pc' = "exit"

\* line 34: Live() is constructed and entered
OpenSession ==
    /\ pc = "start"
    /\ events' = Append(events, "open")
    /\ \/ /\ session' = "open"
          /\ pc' = After(pc)
          /\ UNCHANGED error
       \/ /\ error' = [type |-> "TrackingError", key |-> "none"]
          /\ pc' = "done"
          /\ UNCHANGED session
    /\ UNCHANGED <<segvars, xfile, yfile, x_test, y_test, data_dict, predict_calls,
                   y_pred_probs, y_pred, eda_time_indices, true_periods,
                   predicted_stress_periods, logged, chart_writes, image_written, fig>>

\* lines 36-37
LoadX ==
    /\ pc = "load_x"
    /\ events' = Append(events, "load_x")
    /\ \/ /\ x_test' = xfile
          /\ pc' = After(pc)
          /\ UNCHANGED error
       \/ /\ Raise("IOError", "none")
          /\ UNCHANGED x_test
    /\ UNCHANGED <<segvars, xfile, yfile, session, y_test, data_dict, predict_calls,
                   y_pred_probs, y_pred, eda_time_indices, true_periods,
                   predicted_stress_periods, logged, chart_writes, image_written, fig>>

\* lines 38-39
LoadY ==
    /\ pc = "load_y"
    /\ events' = Append(events, "load_y")
    /\ \/ /\ y_test' = yfile
          /\ pc' = After(pc)
          /\ UNCHANGED error
       \/ /\ Raise("IOError", "none")
          /\ UNCHANGED y_test
    /\ UNCHANGED <<segvars, xfile, yfile, session, x_test, data_dict, predict_calls,
                   y_pred_probs, y_pred, eda_time_indices, true_periods,
                   predicted_stress_periods, logged, chart_writes, image_written, fig>>

\* lines 43-45: position of the first required key missing from the mapping, 0 if none
BrokenFirstMissing(m) ==
    LET miss == {i \in DOMAIN required_keys : required_keys[i] \notin DOMAIN m}
    IN IF miss = {} THEN 0 ELSE CHOOSE i \in miss : \A j \in miss : j <= i

FirstMissing(m) ==
    LET miss == {i \in DOMAIN required_keys : required_keys[i] \notin DOMAIN m}
    IN IF miss = {} THEN 0 ELSE CHOOSE i \in miss : \A j \in miss : i <= j

\* lines 41-45
Validate ==
    /\ pc = "validate"
    /\ events' = Append(events, "validate")
    /\ LET i == FirstMissing(x_test.chan)
       IN IF i = 0
          THEN pc' = After(pc) /\ UNCHANGED error
          ELSE Raise("ValueError", required_keys[i])
    /\ UNCHANGED <<segvars, xfile, yfile, session, x_test, y_test, data_dict, predict_calls,
                   y_pred_probs, y_pred, eda_time_indices, true_periods,
                   predicted_stress_periods, logged, chart_writes, image_written, fig>>

\* np.array(a).reshape(-1, w, 1) needs a whole number of windows
Reshapable(n, w) == n % w = 0

\* lines 52-55: one tensor of shape (n, win, 1)
Tensor(key, m) == [key |-> key, n |-> m[key] \div Win(key), win |-> Win(key)]

\* lines 48-56
Reshape ==
    /\ pc = "reshape"
    /\ events' = Append(events, "reshape")
    /\ IF \A key \in Keys : Reshapable(x_test.chan[key], Win(key))
       THEN /\ data_dict' = [key \in Keys |-> Tensor(key, x_test.chan)]
            /\ pc' = After(pc)
            /\ UNCHANGED error
       ELSE /\ Raise("ValueError", "reshape")
            /\ UNCHANGED data_dict
    /\ UNCHANGED <<segvars, xfile, yfile, session, x_test, y_test, predict_calls,
                   y_pred_probs, y_pred, eda_time_indices, true_periods,
                   predicted_stress_periods, logged, chart_writes, image_written, fig>>

\* line 59: the list handed to model.predict
BrokenPredictArgs(d) == <<d["EDA"], d["TEMP"], d["BVP"], d["ACC"]>>

PredictArgs(d) == <<d["EDA"], d["BVP"], d["TEMP"], d["ACC"]>>

\* line 59: the model is opaque; it returns one score per window or raises
Predict ==
    /\ pc = "predict"
    /\ events' = Append(events, "predict")
    /\ predict_calls' = Append(predict_calls, PredictArgs(data_dict))
    /\ \/ /\ \E probs \in [1..data_dict["EDA"].n -> Scores] : y_pred_probs' = probs
          /\ pc' = After(pc)
          /\ UNCHANGED error
       \/ /\ Raise("InferenceError", "none")
          /\ UNCHANGED y_pred_probs
    /\ UNCHANGED <<segvars, xfile, yfile, session, x_test, y_test, data_dict,
                   y_pred, eda_time_indices, true_periods,
                   predicted_stress_periods, logged, chart_writes, image_written, fig>>

\* line 60: (y_pred_probs > 0.5).astype(int).flatten()
BrokenBinarize(probs) == [i \in DOMAIN probs |-> IF probs[i] >= Threshold THEN 1 ELSE 0]

Binarize(probs) == [i \in DOMAIN probs |-> IF probs[i] > Threshold THEN 1 ELSE 0]

\* line 60
Threshold_ ==
    /\ pc = "binarize"
    /\ y_pred' = Binarize(y_pred_probs)
    /\ pc' = After(pc)
    /\ UNCHANGED <<segvars, xfile, yfile, session, x_test, y_test, data_dict, predict_calls,
                   y_pred_probs, eda_time_indices, true_periods,
                   predicted_stress_periods, logged, chart_writes, image_written, fig,
                   events, error>>

\* line 62
LogPlot ==
    /\ pc = "log_plot"
    /\ events' = Append(events, "log_plot")
    /\ \/ /\ logged' = Append(logged, [entry |-> "confusion_matrix",
                                       open |-> session = "open",
                                       written |-> image_written])
          /\ pc' = After(pc)
          /\ UNCHANGED error
       \/ /\ Raise("TrackingError", "none")
          /\ UNCHANGED logged
    /\ UNCHANGED <<segvars, xfile, yfile, session, x_test, y_test, data_dict, predict_calls,
                   y_pred_probs, y_pred, eda_time_indices, true_periods,
                   predicted_stress_periods, chart_writes, image_written, fig>>

\* line 65: np.arange(n).tolist()
Arange(n) == [i \in 1..n |-> i - 1]

\* lines 68-69: [(i * 8, (i + 1) * 8) for i, label in enumerate(L) if label == 1]
UnfilteredStressPeriods(L) == [i \in DOMAIN L |-> <<(i - 1) * PeriodLen, i * PeriodLen>>]

BrokenStressPeriods(L) ==
    LET RECURSIVE Upto(_)
        Upto(n) == IF n = 0 THEN <<>>
                   ELSE IF L[n] = 1
                        THEN Append(Upto(n - 1), <<n * PeriodLen, (n + 1) * PeriodLen>>)
                        ELSE Upto(n - 1)
    IN Upto(Len(L))

StressPeriods(L) ==
    LET RECURSIVE Upto(_)
        Upto(n) == IF n = 0 THEN <<>>
                   ELSE IF L[n] = 1
                        THEN Append(Upto(n - 1), <<(n - 1) * PeriodLen, n * PeriodLen>>)
                        ELSE Upto(n - 1)
    IN Upto(Len(L))

\* lines 65-69
DerivePeriods ==
    /\ pc = "indices"
    /\ eda_time_indices' = Arange(x_test.chan["EDA"])
    /\ true_periods' = StressPeriods(y_test)
    /\ predicted_stress_periods' = StressPeriods(y_pred)
    /\ pc' = After(pc)
    /\ UNCHANGED <<segvars, xfile, yfile, session, x_test, y_test, data_dict, predict_calls,
                   y_pred_probs, y_pred, logged, chart_writes, image_written, fig,
                   events, error>>

\* lines 85-110: one background rectangle per interval
Shapes(periods, colour) ==
    [j \in DOMAIN periods |-> [x0 |-> periods[j][1], x1 |-> periods[j][2], fill |-> colour]]

\* lines 72-119
BuildFigure ==
    /\ pc = "figure"
    /\ fig' = [x |-> eda_time_indices,
               shapes |-> Shapes(true_periods, "green")
                          \o Shapes(predicted_stress_periods, "red")]
    /\ pc' = After(pc)
    /\ UNCHANGED <<segvars, xfile, yfile, session, x_test, y_test, data_dict, predict_calls,
                   y_pred_probs, y_pred, eda_time_indices, true_periods,
                   predicted_stress_periods, logged, chart_writes, image_written,
                   events, error>>

\* lines 122-123
WriteImage ==
    /\ pc = "write_image"
    /\ events' = Append(events, "write_image")
    /\ chart_writes' = chart_writes + 1
    /\ \/ /\ image_written' = TRUE
          /\ pc' = After(pc)
          /\ UNCHANGED error
       \/ /\ Raise("WriteError", "none")
          /\ UNCHANGED image_written
    /\ UNCHANGED <<segvars, xfile, yfile, session, x_test, y_test, data_dict, predict_calls,
                   y_pred_probs, y_pred, eda_time_indices, true_periods,
                   predicted_stress_periods, logged, fig>>

\* line 124
LogImage ==
    /\ pc = "log_image"
    /\ events' = Append(events, "log_image")
    /\ \/ /\ logged' = Append(logged, [entry |-> "image",
                                       open |-> session = "open",
                                       written |-> image_written])
          /\ pc' = After(pc)
          /\ UNCHANGED error
       \/ /\ Raise("TrackingError", "none")
          /\ UNCHANGED logged
    /\ UNCHANGED <<segvars, xfile, yfile, session, x_test, y_test, data_dict, predict_calls,
                   y_pred_probs, y_pred, eda_time_indices, true_periods,
                   predicted_stress_periods, chart_writes, image_written, fig>>

\* line 126: return from inside the with block
Return ==
    /\ pc = "return"
    /\ pc' = After(pc)
    /\ UNCHANGED <<segvars, xfile, yfile, session, x_test, y_test, data_dict, predict_calls,
                   y_pred_probs, y_pred, eda_time_indices, true_periods,
                   predicted_stress_periods, logged, chart_writes, image_written, fig,
                   events, error>>

\* line 34: leaving the with block, by return or by exception, runs Live.__exit__
BrokenSessionAfterExit == IF error = NoError THEN "closed" ELSE session

SessionAfterExit == "closed"

ExitSession ==
    /\ pc = "exit"
    /\ session' = SessionAfterExit
    /\ events' = Append(events, "close")
    /\ pc' = After(pc)
    /\ UNCHANGED <<segvars, xfile, yfile, x_test, y_test, data_dict, predict_calls,
                   y_pred_probs, y_pred, eda_time_indices, true_periods,
                   predicted_stress_periods, logged, chart_writes, image_written, fig,
                   error>>

\* ------------------------------------------------------------------------
\* Specifications
\* ------------------------------------------------------------------------
Init == DrvInit /\ time_indices = <<>> /\ values = <<>> /\ stress_periods = <<>> /\ SegIdle

Next ==
    \/ OpenSession
    \/ LoadX
    \/ LoadY
    \/ Validate
    \/ Reshape
    \/ Predict
    \/ Threshold_
    \/ LogPlot
    \/ DerivePeriods
    \/ BuildFigure
    \/ WriteImage
    \/ LogImage
    \/ Return
    \/ ExitSession

Spec == Init /\ [][Next]_vars

InitSeg == SegInit /\ xfile = [chan |-> <<>>, fill |-> "zeros"] /\ yfile = <<>> /\ DrvIdle

NextSeg ==
    \/ (SegEnter /\ UNCHANGED drvvars)
    \/ (SegStep /\ UNCHANGED drvvars)
    \/ (SegReturn /\ UNCHANGED drvvars)

SpecSeg == InitSeg /\ [][NextSeg]_vars

\* ------------------------------------------------------------------------
\* Properties of create_segments (checked under SpecSeg)
\* ------------------------------------------------------------------------
SegXs == [k \in DOMAIN segments |-> segments[k].x]

SegYs == [k \in DOMAIN segments |-> segments[k].y]

\* The classification as the contract words it: start <= t < end for some
\* supplied interval.
Classified(t) ==
    \E j \in DOMAIN stress_periods :
        stress_periods[j][1] <= t /\ t < stress_periods[j][2]

\* C1: for equal-length time_indices and values, the returned segments are a
\* partition of the input: each segment is non-empty with x and y of equal
\* length, the x lists concatenate to time_indices and the y lists to values;
\* empty input gives no segment and a single sample gives exactly one.
C1_SegmentsPartitionInput ==
    (spc = "done" /\ Len(time_indices) = Len(values)) =>
        /\ \A k \in DOMAIN segments :
              /\ Len(segments[k].x) > 0
              /\ Len(segments[k].x) = Len(segments[k].y)
        /\ Flatten(SegXs) = time_indices
        /\ Flatten(SegYs) = values
        /\ (time_indices = <<>> => segments = <<>>)
        /\ (Len(time_indices) = 1 => Len(segments) = 1)

C1_Witness ==
    /\ spc = "done"
    /\ Len(time_indices) = 3
    /\ Len(values) = 3
    /\ Len(segments) = 3

\* C2: every sample of a returned segment has the same classification, the
\* segment is "red" iff that classification is in-stress and "blue" otherwise,
\* and the last sample of a segment and the first sample of the next one are
\* classified differently.
C2_SegmentsAreMaximalRuns ==
    spc = "done" =>
        /\ \A k \in DOMAIN segments :
              LET seg == segments[k]
              IN /\ seg.x # <<>>
                 /\ \A i \in DOMAIN seg.x : Classified(seg.x[i]) = Classified(seg.x[1])
                 /\ seg.color = (IF Classified(seg.x[1]) THEN "red" ELSE "blue")
        /\ \A k \in DOMAIN segments :
              k < Len(segments) =>
                  Classified(segments[k].x[Len(segments[k].x)])
                      # Classified(segments[k + 1].x[1])

C2_Witness ==
    /\ spc = "done"
    /\ Len(segments) >= 2
    /\ segments[1].color = "red"
    /\ Len(segments[1].x) >= 2
    /\ segments[2].color = "blue"

\* ------------------------------------------------------------------------
\* Properties of plot_physiological_signals (checked under Spec)
\* ------------------------------------------------------------------------
Did(e) == \E i \in DOMAIN events : events[i] = e

Count(e) == Cardinality({i \in DOMAIN events : events[i] = e})

Pos(e) == CHOOSE i \in DOMAIN events : events[i] = e

Before(a, b) == Did(b) => (Did(a) /\ Pos(a) < Pos(b))

Left == pc \in {"exit", "done"}

\* the binarisation statement has run
Binarized ==
    \/ pc \in {"log_plot", "indices", "figure", "write_image", "log_image", "return"}
    \/ (Left /\ Did("log_plot"))

\* the interval-deriving statements have run
Derived ==
    \/ pc \in {"figure", "write_image", "log_image", "return"}
    \/ (Left /\ (Did("write_image") \/ Did("log_image")))

KeyOrder == <<"EDA", "TEMP", "BVP", "ACC">>

\* C3: when the loaded feature mapping lacks a required key, validation raises
\* a ValueError naming the first missing key in the order EDA, TEMP, BVP, ACC,
\* and that run never calls predict, logs nothing and writes no chart image.
C3_MissingKeyRaises ==
    (Did("validate") /\ \E i \in DOMAIN KeyOrder : KeyOrder[i] \notin DOMAIN x_test.chan) =>
        /\ Left
        /\ error.type = "ValueError"
        /\ \E i \in DOMAIN KeyOrder :
              /\ error.key = KeyOrder[i]
              /\ KeyOrder[i] \notin DOMAIN x_test.chan
              /\ \A j \in 1..(i - 1) : KeyOrder[j] \in DOMAIN x_test.chan
        /\ predict_calls = <<>>
        /\ ~Did("predict")
        /\ logged = <<>>
        /\ ~Did("log_plot")
        /\ ~Did("log_image")
        /\ chart_writes = 0
        /\ ~image_written

C3_Witness ==
    /\ pc = "done"
    /\ error = [type |-> "ValueError", key |-> "TEMP"]
    /\ DOMAIN x_test.chan = {"EDA", "BVP"}

\* C4: the tracking session is opened before any fixture is loaded, every
\* logging call is made while it is open, it is closed on every exit path
\* before control returns, and nothing uses it after the close.
C4_SessionScoped ==
    /\ \A i \in DOMAIN events :
          events[i] \in {"load_x", "load_y"} => (i > 1 /\ events[1] = "open")
    /\ \A i \in DOMAIN events :
          events[i] \in {"log_plot", "log_image"} =>
              /\ \E j \in 1..(i - 1) : events[j] = "open"
              /\ \A j \in 1..i : events[j] # "close"
    /\ \A k \in DOMAIN logged : logged[k].open
    /\ \A i \in DOMAIN events : events[i] = "close" => i = Len(events)
    /\ (session = "open") <=> (pc \notin {"start", "done"})
    /\ pc = "done" => (session = "closed" <=> Did("load_x"))
    /\ Count("open") <= 1
    /\ Count("close") <= 1

C4_Witness ==
    /\ pc = "done"
    /\ session = "closed"
    /\ error.type = "WriteError"
    /\ Len(logged) = 1

\* The intervals P are those the data model derives from the labels L: one
\* <<i*8, (i+1)*8>> per index i (from 0) with L[i] = 1, in increasing order.
DerivedFrom(L, P) ==
    /\ Len(P) = Cardinality({n \in DOMAIN L : L[n] = 1})
    /\ \A j \in DOMAIN P :
          /\ \E i \in 0..(Len(L) - 1) : L[i + 1] = 1 /\ P[j] = <<i * 8, (i + 1) * 8>>
          /\ P[j][2] - P[j][1] = 8
    /\ \A i \in 0..(Len(L) - 1) :
          L[i + 1] = 1 => \E j \in DOMAIN P : P[j] = <<i * 8, (i + 1) * 8>>
    /\ \A j, k \in DOMAIN P : j < k => P[j][2] <= P[k][1]

\* C5: the stress intervals derived from a binary label sequence (y_test or
\* y_pred) are exactly <<i*8, (i+1)*8>> for the indices i with label 1, in
\* increasing order, pairwise disjoint and of length 8; [0,1,0,1] gives
\* [(8,16),(24,32)].
C5_IntervalsFromLabels ==
    Derived =>
        /\ DerivedFrom(y_test, true_periods)
        /\ DerivedFrom(y_pred, predicted_stress_periods)
        /\ (y_test = <<0, 1, 0, 1>> => true_periods = << <<8, 16>>, <<24, 32>> >>)

C5_Witness ==
    /\ Derived
    /\ y_test = <<0, 1, 0, 1>>
    /\ true_periods = << <<8, 16>>, <<24, 32>> >>
    /\ predicted_stress_periods = << <<0, 8>>, <<16, 24>> >>

\* C6: binarisation maps each score to 1 iff it is strictly greater than 0.5
\* (5 tenths) and to 0 otherwise, keeps the order and the number of scores;
\* [0.4, 0.5, 0.6] gives [0, 0, 1].
C6_StrictThreshold ==
    Binarized =>
        /\ Len(y_pred) = Len(y_pred_probs)
        /\ \A i \in DOMAIN y_pred : y_pred[i] \in {0, 1}
        /\ \A i \in DOMAIN y_pred : (y_pred[i] = 1) <=> (y_pred_probs[i] > 5)
        /\ (y_pred_probs = <<4, 5, 6>> => y_pred = <<0, 0, 1>>)

C6_Witness ==
    /\ Binarized
    /\ y_pred_probs = <<4, 5, 6>>
    /\ y_pred = <<0, 0, 1>>

\* A run on all-zero channels of two windows each and labels [0,0] that
\* returns normally.
C7_Case ==
    /\ pc = "done"
    /\ error = NoError
    /\ x_test.fill = "zeros"
    /\ \A i \in DOMAIN KeyOrder : data_dict[KeyOrder[i]].n = 2
    /\ y_test = <<0, 0>>

\* C7 as stated: such a run has no predicted and no true stress interval and
\* calls the chart writer exactly once.
C7_ZeroInputNoIntervals ==
    C7_Case =>
        /\ predicted_stress_periods = <<>>
        /\ true_periods = <<>>
        /\ chart_writes = 1

\* C7 amended: such a run has no true stress interval, calls the chart writer
\* exactly once, and has no predicted stress interval exactly when the model
\* scores no window above 0.5.
C7_ZeroInputIntervalsFollowModel ==
    C7_Case =>
        /\ true_periods = <<>>
        /\ chart_writes = 1
        /\ Count("write_image") = 1
        /\ (predicted_stress_periods = <<>>) <=> (\A i \in DOMAIN y_pred_probs : y_pred_probs[i] <= 5)

C7_Witness ==
    /\ C7_Case
    /\ y_pred_probs = <<5, 4>>
    /\ predicted_stress_periods = <<>>
    /\ image_written

\* C8: a run that passes validation and reshaping calls predict exactly once,
\* with the four tensors in the order EDA, BVP, TEMP, ACC, of per-window
\* lengths 32, 256, 32, 256, after validation and before any log entry or
\* chart write.
C8_PredictOnceInOrder ==
    /\ Len(predict_calls) <= 1
    /\ Count("predict") = Len(predict_calls)
    /\ (pc = "done" /\ Did("reshape") /\ error.key # "reshape") => Len(predict_calls) = 1
    /\ \A c \in DOMAIN predict_calls :
          LET args == predict_calls[c]
          IN /\ Len(args) = 4
             /\ [a \in 1..4 |-> args[a].key] = <<"EDA", "BVP", "TEMP", "ACC">>
             /\ [a \in 1..4 |-> args[a].win] = <<32, 256, 32, 256>>
             /\ \A a \in 1..4 : args[a].n * args[a].win = x_test.chan[args[a].key]
    /\ Before("validate", "predict")
    /\ Before("reshape", "predict")
    /\ Before("predict", "log_plot")
    /\ Before("predict", "write_image")
    /\ Before("predict", "log_image")

C8_Witness ==
    /\ pc = "done"
    /\ error = NoError
    /\ Len(predict_calls) = 1
    /\ predict_calls[1][2] = [key |-> "BVP", n |-> 2, win |-> 256]
    /\ predict_calls[1][3] = [key |-> "TEMP", n |-> 2, win |-> 32]

Range(f) == {f[i] : i \in DOMAIN f}

\* C9: for every window i the EDA time indices inside [i*8, (i+1)*8) are
\* exactly the time indices of the EDA samples of window i (32 samples per
\* window), and every derived interval lies within 0 .. len(eda)-1.
C9_IntervalsAlignWithEdaIndex ==
    Derived =>
        /\ \A i \in 0..(data_dict["EDA"].n - 1) :
              {t \in Range(eda_time_indices) : i * 8 <= t /\ t < (i + 1) * 8}
                  = {t \in Range(eda_time_indices) : t \div 32 = i}
        /\ \A p \in Range(true_periods) \cup Range(predicted_stress_periods) :
              0 <= p[1] /\ p[2] - 1 <= Len(eda_time_indices) - 1

\* C10: the confusion-matrix entry is logged after inference and before the
\* chart image is written, the image entry only after the chart image has
\* been written; a run failing at the chart write has logged exactly the
\* confusion matrix, a run failing before inference completes has logged
\* nothing, and each entry is logged at most once.
C10_LogOrder ==
    /\ Len(logged) <= 2
    /\ \A k \in DOMAIN logged :
          logged[k].entry = (IF k = 1 THEN "confusion_matrix" ELSE "image")
    /\ \A k \in DOMAIN logged :
          logged[k].entry = "confusion_matrix" => ~logged[k].written
    /\ \A k \in DOMAIN logged :
          logged[k].entry = "image" => logged[k].written
    /\ Count("log_plot") <= 1
    /\ Count("log_image") <= 1
    /\ Before("predict", "log_plot")
    /\ Before("log_plot", "write_image")
    /\ Before("write_image", "log_image")
    /\ (logged # <<>>) => Did("log_plot")
    /\ (Len(logged) = 2) => (Did("log_image") /\ image_written)
    /\ Did("write_image") => Len(logged) >= 1
    /\ (Left /\ error.type = "WriteError") =>
          (Len(logged) = 1 /\ logged[1].entry = "confusion_matrix")
    /\ (Left /\ (~Did("predict") \/ error.type = "InferenceError")) => logged = <<>>

C10_Witness ==
    /\ pc = "done"
    /\ error = NoError
    /\ Len(logged) = 2
    /\ logged[2].entry = "image"
    /\ events[Len(events) - 1] = "log_image"

====
